---- MODULE Spec2Model ----
(***************************************************************************)
(* nessie: the transition index ("Chain", src/src/chain.rs), the ranked    *)
(* frequency counter (src/src/counter.rs) and the compact token            *)
(* (src/src/unigram.rs, src/src/clone_in.rs).                              *)
(*                                                                         *)
(* Indices: the Rust code is 0-based.  Positions in `words` (i, start,     *)
(* end) keep the code's 0-based values; W(k) reads words[k].  Positions in *)
(* Counter.items and the values of Counter.indicies are 1-based, i.e. the  *)
(* code's index plus one.                                                  *)
(***************************************************************************)
EXTENDS Integers, Sequences, FiniteSets, TLC

VARIABLES
    half_para_len,          \* Chain.half_para_len
    prune_size,             \* Chain.prune_size
    prune_threshold,        \* Chain.prune_threshold
    chain,                  \* Chain.chain
    pools,                  \* Chain.pools
    active_pool,            \* Chain.active_pool
    pc,                     \* position of the running call
    words,                  \* update(): the argument
    i,                      \* update(): loop variable
    seq_num,                \* update(): local
    previous_topic_bigram,  \* update(): local
    counter,                \* update(): local Counter; the Counter under test
    last,                   \* the last public call: operation, result, len(words),
                            \* num_entries() when it ran prune() (-1: it did not)
    calls,                  \* number of public calls made so far
    net,                    \* Counter under test: adds minus removes, per key
    script                  \* scripted run: the documents the caller will pass

vars == <<half_para_len, prune_size, prune_threshold, chain, pools,
          active_pool, pc, words, i, seq_num, previous_topic_bigram,
          counter, last, calls, net, script>>

\* What is fixed when the index is made: its configuration and, in a
\* scripted run, the caller's documents
configVars == <<half_para_len, prune_size, prune_threshold, script>>
indexVars == <<chain, pools, active_pool>>
localVars == <<words, i, seq_num, previous_topic_bigram>>

(***************************************************************************)
(* Bounds                                                                  *)
(***************************************************************************)
MaxDocLen == 6
MaxSeqDocLen == 3
MaxCalls == 2
MaxTotal == 6
MaxTextLen == 129

\* Configurations (half_para_len, prune_size, prune_threshold are usize)
HalfParaLens == 0..4
PruneSizes == {0, 600}
PruneThresholds == 1..3

(***************************************************************************)
(* Token texts: byte strings.  One text of every kind update() and         *)
(* Unigram distinguish: length <= 2 (not counted), 2 < length <= 15        *)
(* (counted, inline), length > 15 (counted, boxed).                        *)
(***************************************************************************)
TokS == <<1, 2>>
TokA == <<1, 2, 3>>
TokC == <<3, 1, 2>>
TokD == <<2, 1, 3>>
TokB == <<2, 2, 2, 2, 2, 2, 2, 2, 2, 2, 2, 2, 2, 2, 2, 3>>
EmptyText == <<>>

Alphabet == {TokS, TokA, TokB, TokC}
SeqAlphabet == {TokA, TokB}

RECURSIVE SeqsOfLen(_, _)
SeqsOfLen(S, n) ==
    IF n = 0 THEN {<<>>}
    ELSE {Append(s, x) : s \in SeqsOfLen(S, n - 1), x \in S}

SeqsUpTo(S, n) == UNION {SeqsOfLen(S, k) : k \in 0..n}

Max(a, b) == IF a > b THEN a ELSE b
Min(a, b) == IF a < b THEN a ELSE b

(***************************************************************************)
(* Unigram (src/src/unigram.rs)                                            *)
(***************************************************************************)
INLINE_CAP == 15
MARKER_LEN_MASK == 127
MARKER_DISC_MASK == 128

\* `len as u8`
AsU8(n) == n % 256

\* x & MARKER_LEN_MASK, x | MARKER_DISC_MASK, x & MARKER_DISC_MASK on a u8
AndLenMask(x) == x % (MARKER_LEN_MASK + 1)
OrDiscMask(x) == IF x >= MARKER_DISC_MASK THEN x ELSE x + MARKER_DISC_MASK
AndDiscMask(x) == IF x >= MARKER_DISC_MASK THEN MARKER_DISC_MASK ELSE 0

Marker_new_inline(len) == AsU8(len)
Marker_new_boxed(len) == OrDiscMask(AsU8(len))
\* a length field of 6 bits
Marker_len6(m) == m % 64

Marker_len(m) == AndLenMask(m)
Marker_is_inline(m) == AndDiscMask(m) = 0

\* A region reference: the pool and the generation (number of resets) of
\* the pool at the time of the allocation.  NoRegion: nothing allocated.
NoRegion == [pool |-> 2, gen |-> 0]
NoPtr == [region |-> NoRegion, bytes |-> <<>>]

\* Repr: data holds the text zero-padded to INLINE_CAP bytes (inline) or a
\* pointer to the bytes allocated in a region (boxed).
ZeroPad(s) == [k \in 1..INLINE_CAP |-> IF k <= Len(s) THEN s[k] ELSE 0]

from_slice_inline(slice) ==
    [marker |-> Marker_new_inline(Len(slice)),
     data |-> ZeroPad(slice),
     ptr |-> NoPtr]

from_slice_in_boxed(slice, region) ==
    [marker |-> Marker_new_boxed(Len(slice)),
     data |-> <<>>,
     ptr |-> [region |-> region, bytes |-> slice]]

\* the inline form chosen up to INLINE_CAP + 1 bytes
from_slice_in_cap16(slice, region) ==
    IF Len(slice) > INLINE_CAP + 1
    THEN from_slice_in_boxed(slice, region)
    ELSE from_slice_inline(slice)

from_slice_in(slice, region) ==
    IF Len(slice) > INLINE_CAP
    THEN from_slice_in_boxed(slice, region)
    ELSE from_slice_inline(slice)

Unigram_len(u) == Marker_len(u.marker)
Unigram_is_inline(u) == Marker_is_inline(u.marker)

\* from_raw_parts(data_ptr(), len())
as_str(u) ==
    IF Unigram_is_inline(u)
    THEN SubSeq(u.data, 1, Unigram_len(u))
    ELSE SubSeq(u.ptr.bytes, 1, Unigram_len(u))

\* Layout::from_size_align_unchecked(len, 16).pad_to_align(): the bytes a
\* boxed token requests from its region; 0 for an inline token.
PadToAlign(n) == ((n + 15) \div 16) * 16
AllocSize(slice) == IF Len(slice) > INLINE_CAP THEN PadToAlign(Len(slice)) ELSE 0

\* clone_in as a bitwise copy of every token, boxed ones included
Unigram_clone_bitwise(u, region) == u

Unigram_clone_in(u, region) ==
    IF Unigram_is_inline(u)
    THEN u
    ELSE from_slice_in_boxed(as_str(u), region)

CloneSize(u) == IF Unigram_is_inline(u) THEN 0 ELSE PadToAlign(Len(as_str(u)))

\* size_of::<Repr<A>>() (packed: data, marker, a zero-sized PhantomData) and
\* size_of::<Unigram<A>>() (a MaybeUninit<Repr<A>>)
SIZE_OF_REPR == INLINE_CAP + 1
SIZE_OF_UNIGRAM == SIZE_OF_REPR

\* ptr::copy_nonoverlapping::<T>(src, dst, count) copies count * size_of::<T>()
\* bytes
copy_nonoverlapping(elem_size, count) == count * elem_size

\* The bytes clone_in reads at self.raw and writes at out.raw: src and dst
\* are pointers to Repr<A> and the count is size_of::<Self>().  Nothing is
\* copied this way for a boxed token.
RawCopyBytes(u) ==
    IF Unigram_is_inline(u)
    THEN copy_nonoverlapping(SIZE_OF_REPR, SIZE_OF_UNIGRAM)
    ELSE 0

\* The copy runs past the end of the source and of the new value
Overrun(u) == RawCopyBytes(u) > SIZE_OF_UNIGRAM

\* What a clone_in of a pair can do: return, or anything at all (outcome
\* "ub") once a copy has run past the two values
CloneOutcomes(b) ==
    IF Overrun(b[1]) \/ Overrun(b[2]) THEN {"Ok", "ub"} ELSE {"Ok"}

Unigram_eq(u, v) ==
    IF u.marker # v.marker THEN FALSE
    ELSE IF Unigram_is_inline(u) THEN u.data = v.data
    ELSE as_str(u) = as_str(v)

\* (T, T): PartialEq and CloneIn are component-wise
Bigram_eq(a, b) == Unigram_eq(a[1], b[1]) /\ Unigram_eq(a[2], b[2])
Bigram_clone_in(b, region) ==
    <<Unigram_clone_in(b[1], region), Unigram_clone_in(b[2], region)>>
BigramCloneSize(b) == CloneSize(b[1]) + CloneSize(b[2])
BigramText(b) == <<as_str(b[1]), as_str(b[2])>>

(***************************************************************************)
(* Counter (src/src/counter.rs)                                            *)
(***************************************************************************)
Counter_new == [items |-> <<>>, indicies |-> <<>>, total |-> 0]

total_count(c) == c.total
num_items(c) == Len(c.items)

\* items.swap(i1, i2)
SwapItems(items, i1, i2) ==
    [items EXCEPT ![i1] = items[i2], ![i2] = items[i1]]

\* the lookup left as it is
update_index_stale(c, k) == c

update_index(c, k) ==
    [c EXCEPT !.indicies = [@ EXCEPT ![c.items[k][1]] = k]]

Counter_swap(c, i1, i2) ==
    IF i1 = i2 THEN c
    ELSE update_index(
             update_index([c EXCEPT !.items = SwapItems(@, i1, i2)], i1), i2)

\* add() without the reordering swap
AddScanNoSwap(items, i1, i2, count) == i1

\* add() moving the entry one position to the left at most
AddScanAdjacent(items, i1, i2, count) ==
    IF i2 >= 1 /\ items[i2][2] < count THEN i2 ELSE i1

\* add(): the position the loop `for i2 in (0..i1).rev()` swaps i1 with
\* (i1 itself when the loop body never runs)
RECURSIVE AddScan(_, _, _, _)
AddScan(items, i1, i2, count) ==
    IF i2 < 1 THEN i1
    ELSE IF items[i2][2] < count
         THEN IF i2 > 1 THEN AddScan(items, i1, i2 - 1, count) ELSE 1
         ELSE i2 + 1

Counter_add(c, key) ==
    LET c1 == [c EXCEPT !.total = @ + 1] IN
    IF key \notin DOMAIN c1.indicies
    THEN [c1 EXCEPT !.indicies = @ @@ (key :> Len(c1.items) + 1),
                    !.items = Append(@, <<key, 1>>)]
    ELSE LET i1 == c1.indicies[key]
             c2 == [c1 EXCEPT !.items[i1][2] = @ + 1]
             count == c2.items[i1][2]
         IN Counter_swap(c2, i1, AddScan(c2.items, i1, i1 - 1, count))

\* remove() moving the entry one position to the right at most
RemoveScanAdjacent(items, i1, i2, count) ==
    IF i2 <= Len(items) /\ items[i2][2] > count THEN i2 ELSE i1

\* remove(): the position the loop `for i2 in (i1 + 1)..len` swaps i1 with
RECURSIVE RemoveScan(_, _, _, _)
RemoveScan(items, i1, i2, count) ==
    IF i2 > Len(items) THEN i1
    ELSE IF items[i2][2] > count
         THEN IF i2 < Len(items) THEN RemoveScan(items, i1, i2 + 1, count)
              ELSE i2
         ELSE i2 - 1

RemoveKey(f, key) == [k \in DOMAIN f \ {key} |-> f[k]]

\* the entry at i1 taken out by closing the gap (the entries after it
\* move one position to the left)
DeleteAtShift(c, i1, key) ==
    LET n == Len(c.items)
        items2 == [k \in 1..(n - 1) |-> IF k < i1 THEN c.items[k] ELSE c.items[k + 1]]
    IN [c EXCEPT !.items = items2,
                 !.indicies = [x \in DOMAIN c.indicies \ {key} |->
                                  CHOOSE k \in 1..(n - 1) : items2[k][1] = x]]

\* remove(), lines 83-87: the key whose count reached 0 is deleted
DeleteAt(c, i1, key) ==
    LET n == Len(c.items)
        c3 == update_index([c EXCEPT !.items[i1] = c.items[n]], i1)
    IN [c3 EXCEPT !.items = SubSeq(@, 1, n - 1),
                  !.indicies = RemoveKey(@, key)]

\* remove() without the deletion of a key whose count reaches 0
Counter_remove_keep(c, key) ==
    LET c1 == [c EXCEPT !.total = @ - 1]
        i1 == c1.indicies[key]
        c2 == [c1 EXCEPT !.items[i1][2] = @ - 1]
        count == c2.items[i1][2]
    IN Counter_swap(c2, i1, RemoveScan(c2.items, i1, i1 + 1, count))

\* remove() of a key the lookup holds (indicies.get_mut(&key).unwrap())
Counter_remove(c, key) ==
    LET c1 == [c EXCEPT !.total = @ - 1]
        i1 == c1.indicies[key]
        c2 == [c1 EXCEPT !.items[i1][2] = @ - 1]
        count == c2.items[i1][2]
    IN IF count = 0
       THEN DeleteAt(c2, i1, key)
       ELSE Counter_swap(c2, i1, RemoveScan(c2.items, i1, i1 + 1, count))

most_frequent(c, n) == c.items[n]

(***************************************************************************)
(* Regions (bumpalo::Bump behind Chain.pools).  bytes: allocated_bytes();  *)
(* gen: the number of reset() calls so far.                                *)
(***************************************************************************)
PoolIds == 0..1

Region(ps, p) == [pool |-> p, gen |-> ps[p].gen]

Charge(ps, region, n) == [ps EXCEPT ![region.pool].bytes = @ + n]

Pool_reset(ps, id) == [ps EXCEPT ![id] = [bytes |-> 0, gen |-> @.gen + 1]]

\* Storage the library containers request from their region: one
\* (i32, Option<Unigram>) slot of a BVec, one (Bigram, BVec) slot of a topic
\* map, one (Bigram, topic map) slot of the chain map.
RecordBytes == 24
TopicEntryBytes == 64
EntryBytes == 96

(***************************************************************************)
(* Chain (src/src/chain.rs)                                                *)
(***************************************************************************)
None == [some |-> FALSE, val |-> from_slice_inline(EmptyText)]
Some(u) == [some |-> TRUE, val |-> u]

EmptyMap == <<>>

Chain_new(hpl, psize, pthreshold) ==
    [half_para_len |-> hpl,
     prune_size |-> psize,
     prune_threshold |-> pthreshold,
     chain |-> [alloc |-> [pool |-> 0, gen |-> 0], map |-> EmptyMap],
     pools |-> [p \in PoolIds |->
                   [bytes |-> IF p = 0 THEN (psize \div 1000) * EntryBytes ELSE 0,
                    gen |-> 0]],
     active_pool |-> 0]

num_entries(ch) == Cardinality(DOMAIN ch.map)
allocated_bytes(ps, active) == ps[active].bytes

\* HashMap lookup: the stored key equal (Eq) to `key`, if any
FindKey(m, key) == {x \in DOMAIN m : Bigram_eq(x, key)}
HasKey(m, key) == FindKey(m, key) # {}
StoredKey(m, key) == CHOOSE x \in DOMAIN m : Bigram_eq(x, key)

\* the early return taken one token too late
TooShortOffByOne(doc, hpl) == Len(doc) < hpl - 1

\* update(), line 68
TooShort(doc, hpl) == Len(doc) < hpl

Counted(word) == Len(word) > 2

\* update(), lines 83-84 (k: the code's i)
Start(k, hpl) == Max(k - hpl, 0)

\* the window end taken one token further
EndInclusive(k, hpl, len) == Min(k + hpl + 1, len)

End(k, hpl, len) == Min(k + hpl, len)

RECURSIVE AddAll(_, _)
AddAll(c, para) ==
    IF para = <<>> THEN c
    ELSE AddAll(IF Counted(Head(para)) THEN Counter_add(c, Head(para)) ELSE c,
                Tail(para))

\* the removal without the test `start > 0`
LeavingFromStart(ws, k, hpl) ==
    LET start == Start(k, hpl) IN
    IF Counted(ws[start + 1]) THEN {ws[start + 1]} ELSE {}

\* The word update() removes at position k > 0, as a set (empty: none)
Leaving(ws, k, hpl) ==
    LET start == Start(k, hpl) IN
    IF start > 0 /\ Counted(ws[start + 1]) THEN {ws[start + 1]} ELSE {}

\* The word update() adds at position k > 0, as a set (empty: none)
Entering(ws, k, hpl) ==
    LET end == End(k, hpl, Len(ws)) IN
    IF (end < Len(ws) \/ k + hpl = Len(ws)) /\ end >= 1 /\ Counted(ws[end])
    THEN {ws[end]} ELSE {}

\* counter.remove(word) panics: `self.total -= 1` underflows or the lookup
\* of the key is None
RemovePanics(c, ws, k, hpl) ==
    k > 0 /\ \E w \in Leaving(ws, k, hpl) : w \notin DOMAIN c.indicies

\* update(), lines 88-106: the counter after the adjustment at position k
Adjust(c, ws, k, hpl) ==
    IF k = 0
    THEN AddAll(c, SubSeq(ws, Start(k, hpl) + 1, End(k, hpl, Len(ws))))
    ELSE LET lv == Leaving(ws, k, hpl)
             c1 == IF lv = {} THEN c ELSE Counter_remove(c, CHOOSE w \in lv : TRUE)
             en == Entering(ws, k, hpl)
         IN IF en = {} THEN c1 ELSE Counter_add(c1, CHOOSE w \in en : TRUE)

\* seq_num never incremented
NextSeqStuck(seq) == seq

\* update(), line 137 (seq_num is an i32; the loop is far shorter than 2^31)
NextSeq(seq) == seq + 1

\* the break taken only below a total of 2
InsufficientLax(c) == total_count(c) < 2 \/ num_items(c) < 2

\* update(), line 108
Insufficient(c) == total_count(c) < 3 \/ num_items(c) < 2

\* the topic compared up to the order of its components
TopicChangedUnordered(topic, prev) ==
    /\ ~Bigram_eq(topic, prev)
    /\ ~Bigram_eq(topic, <<prev[2], prev[1]>>)

\* update(), line 117
TopicChanged(topic, prev) == ~Bigram_eq(topic, prev)

\* update(), lines 112-115
TopicOf(c, region) ==
    <<from_slice_in(most_frequent(c, 1)[1], region),
      from_slice_in(most_frequent(c, 2)[1], region)>>

\* next taken from words[i + 1] instead of words[i + 2]
NextOfOffByOne(ws, k, region) ==
    IF k + 2 < Len(ws) THEN Some(from_slice_in(ws[k + 2], region)) ELSE None

\* update(), lines 122-125
NextOf(ws, k, region) ==
    IF k + 2 < Len(ws) THEN Some(from_slice_in(ws[k + 3], region)) ELSE None

\* update(), lines 128-131
KeyOf(ws, k, region) ==
    <<from_slice_in(ws[k + 1], region), from_slice_in(ws[k + 2], region)>>

\* The list extended by `rec`
PushFront(list, rec) == <<rec>> \o list

\* Vec::push, line 135
PushBack(list, rec) == Append(list, rec)

\* update(), lines 127-135:
\* chain.entry(key).or_insert(map).entry(topic).or_insert(vec).push(rec)
ChainPush(ch, key, topic, rec, region) ==
    LET kk == IF HasKey(ch.map, key) THEN StoredKey(ch.map, key) ELSE key
        tm == IF HasKey(ch.map, key) THEN ch.map[kk]
              ELSE [alloc |-> region, map |-> EmptyMap]
        tt == IF HasKey(tm.map, topic) THEN StoredKey(tm.map, topic) ELSE topic
        vec == IF HasKey(tm.map, topic) THEN tm.map[tt]
               ELSE [alloc |-> region, items |-> <<>>]
        vec2 == [vec EXCEPT !.items = PushBack(@, rec)]
        tm2 == [tm EXCEPT !.map = [t \in DOMAIN tm.map \cup {tt} |->
                                      IF t = tt THEN vec2 ELSE tm.map[t]]]
    IN [ch EXCEPT !.map = [b \in DOMAIN ch.map \cup {kk} |->
                              IF b = kk THEN tm2 ELSE ch.map[b]]]

\* Bytes the push requests: each container grows in its own region
PushCharge(ps, ch, key, topic, region) ==
    LET hasB == HasKey(ch.map, key)
        tm == IF hasB THEN ch.map[StoredKey(ch.map, key)]
              ELSE [alloc |-> region, map |-> EmptyMap]
        hasT == HasKey(tm.map, topic)
        vec == IF hasT THEN tm.map[StoredKey(tm.map, topic)]
               ELSE [alloc |-> region, items |-> <<>>]
        p1 == IF hasB THEN ps ELSE Charge(ps, ch.alloc, EntryBytes)
        p2 == IF hasT THEN p1 ELSE Charge(p1, tm.alloc, TopicEntryBytes)
    IN Charge(p2, vec.alloc, RecordBytes)

\* prune(), lines 163-171
CloneRecord(rec, region) ==
    <<rec[1], IF rec[2].some THEN Some(Unigram_clone_in(rec[2].val, region))
              ELSE None>>

\* the records copied in reverse order
CloneRecordsReversed(unigrams, region) ==
    [alloc |-> region,
     items |-> [k \in 1..Len(unigrams.items) |->
                   CloneRecord(unigrams.items[Len(unigrams.items) + 1 - k], region)]]

CloneRecords(unigrams, region) ==
    [alloc |-> region,
     items |-> [k \in 1..Len(unigrams.items) |->
                   CloneRecord(unigrams.items[k], region)]]

\* prune(), lines 161-174
CloneTopicMap(topic_map, region) ==
    [alloc |-> region,
     map |-> [t \in {Bigram_clone_in(x, region) : x \in DOMAIN topic_map.map} |->
                 CloneRecords(
                     topic_map.map[CHOOSE x \in DOMAIN topic_map.map :
                                       Bigram_clone_in(x, region) = t],
                     region)]]

\* the filter with > in place of >=
KeptStrict(ch, pthreshold) ==
    {b \in DOMAIN ch.map : Cardinality(DOMAIN ch.map[b].map) > pthreshold}

\* prune(), line 159
Kept(ch, pthreshold) ==
    {b \in DOMAIN ch.map : Cardinality(DOMAIN ch.map[b].map) >= pthreshold}

RECURSIVE SumOver(_, _)
SumOver(S, f) ==
    IF S = {} THEN 0
    ELSE LET x == CHOOSE y \in S : TRUE IN f[x] + SumOver(S \ {x}, f)

RecordCloneSize(rec) == IF rec[2].some THEN CloneSize(rec[2].val) ELSE 0

VecCopySize(vec) ==
    Len(vec.items) * RecordBytes
    + SumOver(1..Len(vec.items), [k \in 1..Len(vec.items) |->
                                     RecordCloneSize(vec.items[k])])

TopicMapCopySize(tm) ==
    Cardinality(DOMAIN tm.map) * TopicEntryBytes
    + SumOver(DOMAIN tm.map, [t \in DOMAIN tm.map |->
                                 BigramCloneSize(t) + VecCopySize(tm.map[t])])

\* Bytes prune() requests from the new region
PruneCopySize(ch, pthreshold) ==
    ((num_entries(ch) * 14) \div 10) * EntryBytes
    + SumOver(Kept(ch, pthreshold),
              [b \in Kept(ch, pthreshold) |->
                  BigramCloneSize(b) + TopicMapCopySize(ch.map[b])])

\* the selector left where it is
NextPoolStuck(active) == active

\* advance_pool(), line 63
NextPool(active) == (active + 1) % Cardinality(PoolIds)

\* prune(), lines 151-185
Prune(ch, ps, active, pthreshold) ==
    LET old_pool_id == active
        new_pool == NextPool(active)
        region == Region(ps, new_pool)
        kept == Kept(ch, pthreshold)
        new_chain ==
            [alloc |-> region,
             map |-> [b \in {Bigram_clone_in(x, region) : x \in kept} |->
                         CloneTopicMap(
                             ch.map[CHOOSE x \in kept :
                                        Bigram_clone_in(x, region) = b],
                             region)]]
        ps1 == Charge(ps, region, PruneCopySize(ch, pthreshold))
    IN [chain |-> new_chain,
        pools |-> Pool_reset(ps1, old_pool_id),
        active_pool |-> new_pool]

(***************************************************************************)
(* State machine                                                           *)
(***************************************************************************)
NoTopic == <<from_slice_inline(EmptyText), from_slice_inline(EmptyText)>>

Call(op, ret, len, pruned) ==
    [op |-> op, ret |-> ret, len |-> len, pruned |-> pruned]

\* Locals of update() outside a call
LocalsIdle ==
    /\ words = <<>>
    /\ i = 0
    /\ seq_num = 0
    /\ previous_topic_bigram = NoTopic
    /\ counter = Counter_new

LocalsReset ==
    /\ words' = <<>>
    /\ i' = 0
    /\ seq_num' = 0
    /\ previous_topic_bigram' = NoTopic
    /\ counter' = Counter_new

\* Chain::new
Fresh(hpl, psize, pthreshold) ==
    LET c == Chain_new(hpl, psize, pthreshold) IN
    /\ half_para_len = c.half_para_len
    /\ prune_size = c.prune_size
    /\ prune_threshold = c.prune_threshold
    /\ chain = c.chain
    /\ pools = c.pools
    /\ active_pool = c.active_pool

NoNet == [k \in Alphabet |-> 0]

Init ==
    /\ \E hpl \in HalfParaLens, psize \in PruneSizes, pthreshold \in PruneThresholds :
           Fresh(hpl, psize, pthreshold)
    /\ pc = "idle"
    /\ LocalsIdle
    /\ last = Call("new", "Ok", 0, -1)
    /\ calls = 0
    /\ net = NoNet
    /\ script = <<>>

\* usize::MAX, the value `0usize - 1` wraps to; stands at the largest
\* integer of the model checker
USIZE_MAX == 2147483647

\* `0..(words.len() - 1)`: the exclusive upper end of the loop range, a usize
LoopEnd(doc) == IF Len(doc) = 0 THEN USIZE_MAX ELSE Len(doc) - 1

\* update(), lines 67-80: the call up to the loop.  `words.len() - 1`
\* overflows for an empty document (half_para_len = 0): a build with overflow
\* checks panics, a build without them wraps.
UpdateBegin(doc) ==
    /\ pc = "idle"
    /\ calls < MaxCalls
    /\ calls' = calls + 1
    /\ UNCHANGED <<configVars, indexVars, net>>
    /\ IF TooShort(doc, half_para_len)
       THEN /\ pc' = "idle"
            /\ last' = Call("update", "Ok", Len(doc), -1)
            /\ UNCHANGED <<localVars, counter>>
       ELSE /\ words' = doc
            /\ i' = 0
            /\ seq_num' = 0
            /\ previous_topic_bigram' =
                   <<from_slice_in(EmptyText, Region(pools, active_pool)),
                     from_slice_in(EmptyText, Region(pools, active_pool))>>
            /\ counter' = Counter_new
            /\ \/ /\ pc' = IF 0 < LoopEnd(doc) THEN "loop" ELSE "check"
                  /\ last' = Call("update", "running", Len(doc), -1)
               \/ /\ Len(doc) = 0
                  /\ pc' = "panicked"
                  /\ last' = Call("update", "panic", Len(doc), -1)

\* update(), lines 82-138: one iteration of the position loop
UpdateStep ==
    /\ pc = "loop"
    /\ UNCHANGED <<configVars, active_pool, words, calls, net>>
    /\ IF RemovePanics(counter, words, i, half_para_len)
       THEN /\ pc' = "panicked"
            /\ last' = [last EXCEPT !.ret = "panic"]
            /\ UNCHANGED <<chain, pools, i, seq_num, previous_topic_bigram, counter>>
       ELSE LET c == Adjust(counter, words, i, half_para_len) IN
            /\ counter' = c
            /\ UNCHANGED last
            /\ IF Insufficient(c)
               THEN /\ pc' = "check"
                    /\ UNCHANGED <<chain, pools, i, seq_num, previous_topic_bigram>>
               ELSE LET region == Region(pools, active_pool)
                        topic_bigram == TopicOf(c, region)
                        changed == TopicChanged(topic_bigram, previous_topic_bigram)
                        seq == IF changed THEN 0 ELSE seq_num
                        next_unigram == NextOf(words, i, region)
                        key == KeyOf(words, i, region)
                        tokenBytes ==
                            AllocSize(most_frequent(c, 1)[1])
                            + AllocSize(most_frequent(c, 2)[1])
                            + (IF changed THEN BigramCloneSize(topic_bigram) ELSE 0)
                            + (IF i + 2 < Len(words) THEN AllocSize(words[i + 3]) ELSE 0)
                            + AllocSize(words[i + 1]) + AllocSize(words[i + 2])
                    IN /\ previous_topic_bigram' =
                              IF changed THEN Bigram_clone_in(topic_bigram, region)
                              ELSE previous_topic_bigram
                       /\ chain' = ChainPush(chain, key, topic_bigram,
                                             <<seq, next_unigram>>, region)
                       /\ pools' = PushCharge(Charge(pools, region, tokenBytes),
                                              chain, key, topic_bigram, region)
                       /\ seq_num' = NextSeq(seq)
                       /\ i' = i + 1
                       /\ pc' = IF i + 1 < LoopEnd(words) THEN "loop" ELSE "check"

\* the threshold test with >= in place of >
NeedsPruneAtThreshold(ps, active, psize) == allocated_bytes(ps, active) >= psize

\* update(), line 140
NeedsPrune(ps, active, psize) == allocated_bytes(ps, active) > psize

\* update(), lines 140-144: after the loop
UpdateEnd ==
    /\ pc = "check"
    /\ pc' = "idle"
    /\ LocalsReset
    /\ UNCHANGED <<configVars, calls, net>>
    /\ IF NeedsPrune(pools, active_pool, prune_size)
       THEN LET r == Prune(chain, pools, active_pool, prune_threshold) IN
            /\ chain' = r.chain
            /\ pools' = r.pools
            /\ active_pool' = r.active_pool
            /\ last' = [last EXCEPT !.ret = "Ok", !.pruned = num_entries(chain)]
       ELSE /\ UNCHANGED indexVars
            /\ last' = [last EXCEPT !.ret = "Ok"]

\* prune() called by the owner of the index
Compact ==
    /\ pc = "idle"
    /\ calls < MaxCalls
    /\ calls' = calls + 1
    /\ last' = Call("prune", "Ok", 0, num_entries(chain))
    /\ LET r == Prune(chain, pools, active_pool, prune_threshold) IN
       /\ chain' = r.chain
       /\ pools' = r.pools
       /\ active_pool' = r.active_pool
    /\ UNCHANGED <<configVars, localVars, counter, net, pc>>

SeqDocs == SeqsUpTo(SeqAlphabet, MaxSeqDocLen)

Next ==
    \/ \E doc \in SeqDocs : UpdateBegin(doc)
    \/ UpdateStep
    \/ UpdateEnd
    \/ Compact

Spec == Init /\ [][Next]_vars

(***************************************************************************)
(* update() and prune() when the region allocator refuses a request        *)
(***************************************************************************)
\* How a refused request surfaces.  The bytes of a boxed token are obtained
\* by `alloc.allocate(..).unwrap()`: a panic.  The containers (HashMap, Vec)
\* grow through the infallible library paths, which end the process.
BoxedFailure == "panic"
ContainerFailure == "abort"

\* Bytes of boxed tokens one loop iteration requests
StepTokenBytes(c, ws, k, changed, topic) ==
    AllocSize(most_frequent(c, 1)[1])
    + AllocSize(most_frequent(c, 2)[1])
    + (IF changed THEN BigramCloneSize(topic) ELSE 0)
    + (IF k + 2 < Len(ws) THEN AllocSize(ws[k + 3]) ELSE 0)
    + AllocSize(ws[k + 1]) + AllocSize(ws[k + 2])

\* The outcomes of a refused request among requests for `tokenBytes` bytes of
\* boxed tokens and `containerBytes` bytes of containers
FailureOutcomes(tokenBytes, containerBytes) ==
    (IF tokenBytes > 0 THEN {BoxedFailure} ELSE {})
    \cup (IF containerBytes > 0 THEN {ContainerFailure} ELSE {})

\* update(), lines 112-135: a request of the iteration is refused
UpdateStepAllocFails ==
    /\ pc = "loop"
    /\ ~RemovePanics(counter, words, i, half_para_len)
    /\ LET c == Adjust(counter, words, i, half_para_len)
           region == Region(pools, active_pool)
           topic_bigram == TopicOf(c, region)
           changed == TopicChanged(topic_bigram, previous_topic_bigram)
       IN /\ ~Insufficient(c)
          /\ counter' = c
          /\ \E out \in FailureOutcomes(
                            StepTokenBytes(c, words, i, changed, topic_bigram),
                            RecordBytes) :
                 last' = [last EXCEPT !.ret = out]
    /\ pc' = "alloc_failed"
    /\ UNCHANGED <<configVars, indexVars, words, i, seq_num,
                   previous_topic_bigram, calls, net>>

\* Bytes of boxed tokens prune() requests from the new region
PruneTokenBytes(ch, pthreshold) ==
    SumOver(Kept(ch, pthreshold),
            [b \in Kept(ch, pthreshold) |->
                BigramCloneSize(b)
                + SumOver(DOMAIN ch.map[b].map,
                          [t \in DOMAIN ch.map[b].map |->
                              BigramCloneSize(t)
                              + SumOver(1..Len(ch.map[b].map[t].items),
                                        [k \in 1..Len(ch.map[b].map[t].items) |->
                                            RecordCloneSize(ch.map[b].map[t].items[k])])])])

\* prune(), lines 152-177: a request of the rebuild is refused.  The selector
\* was advanced at line 153; self.chain is swapped only at line 179 and the
\* old pool reset only at line 182.
PruneFails(ch, ps, active, pthreshold, out) ==
    /\ out \in FailureOutcomes(PruneTokenBytes(ch, pthreshold),
                               PruneCopySize(ch, pthreshold)
                               - PruneTokenBytes(ch, pthreshold))
    /\ active_pool' = NextPool(active)
    /\ chain' = ch
    /\ \E got \in {0, PruneCopySize(ch, pthreshold) \div 2} :
           pools' = Charge(ps, Region(ps, NextPool(active)), got)

\* update(), line 141: prune() fails
UpdateEndAllocFails ==
    /\ pc = "check"
    /\ NeedsPrune(pools, active_pool, prune_size)
    /\ \E out \in {BoxedFailure, ContainerFailure} :
           /\ PruneFails(chain, pools, active_pool, prune_threshold, out)
           /\ last' = [last EXCEPT !.ret = out, !.pruned = num_entries(chain)]
    /\ pc' = "alloc_failed"
    /\ UNCHANGED <<configVars, localVars, counter, calls, net>>

\* prune() called by the owner of the index fails
CompactAllocFails ==
    /\ pc = "idle"
    /\ calls < MaxCalls
    /\ calls' = calls + 1
    /\ \E out \in {BoxedFailure, ContainerFailure} :
           /\ PruneFails(chain, pools, active_pool, prune_threshold, out)
           /\ last' = Call("prune", out, 0, num_entries(chain))
    /\ pc' = "alloc_failed"
    /\ UNCHANGED <<configVars, localVars, counter, net>>

NextAlloc ==
    \/ \E doc \in SeqDocs : UpdateBegin(doc)
    \/ UpdateStep
    \/ UpdateEnd
    \/ Compact
    \/ UpdateStepAllocFails
    \/ UpdateEndAllocFails
    \/ CompactAllocFails

SpecAlloc == Init /\ [][NextAlloc]_vars

(***************************************************************************)
(* A scripted run: the documents are fixed when the index is made and      *)
(* passed to update() one after the other                                  *)
(***************************************************************************)
\* update(), line 108: the least total count with which a position is
\* processed, hence the least length of a document that adds anything
MinContext == 3

\* Runs of MaxCalls documents of MinContext tokens each
ScriptDocs == SeqsOfLen(SeqAlphabet, MinContext)
Scripts == SeqsOfLen(ScriptDocs, MaxCalls)

InitScript ==
    /\ \E hpl \in HalfParaLens, psize \in PruneSizes, pthreshold \in PruneThresholds :
           Fresh(hpl, psize, pthreshold)
    /\ script \in Scripts
    /\ pc = "idle"
    /\ LocalsIdle
    /\ last = Call("new", "Ok", 0, -1)
    /\ calls = 0
    /\ net = NoNet

ScriptedUpdate ==
    /\ calls < Len(script)
    /\ UpdateBegin(script[calls + 1])

NextScript ==
    \/ ScriptedUpdate
    \/ UpdateStep
    \/ UpdateEnd

SpecScript == InitScript /\ [][NextScript]_vars

(***************************************************************************)
(* One update() of any document on a fresh index                           *)
(***************************************************************************)
Docs == SeqsUpTo(Alphabet, MaxDocLen)

\* The largest prune size: small documents end without a prune, large ones
\* with one
UpdatePruneSize == CHOOSE s \in PruneSizes : \A t \in PruneSizes : t <= s

InitUpdate ==
    /\ \E hpl \in HalfParaLens : Fresh(hpl, UpdatePruneSize, 1)
    /\ \E doc \in Docs :
           /\ ~TooShort(doc, half_para_len)
           /\ Len(doc) > 0
           /\ words = doc
           /\ pc = IF 0 < LoopEnd(doc) THEN "loop" ELSE "check"
           /\ last = Call("update", "running", Len(doc), -1)
    /\ i = 0
    /\ seq_num = 0
    /\ previous_topic_bigram = NoTopic
    /\ counter = Counter_new
    /\ calls = 1
    /\ net = NoNet
    /\ script = <<>>

NextUpdate ==
    \/ UpdateStep
    \/ UpdateEnd

SpecUpdate == InitUpdate /\ [][NextUpdate]_vars

(***************************************************************************)
(* One update() of a document of MaxWinDocLen words, of three counted      *)
(* words, on a fresh index: update() removes words added after the seed    *)
(***************************************************************************)
MaxWinDocLen == 8
WinAlphabet == {TokA, TokC, TokD}
WinDocs == SeqsOfLen(WinAlphabet, MaxWinDocLen)
\* half_para_len up to the smallest one whose window at position 0 can hold
\* the 3 words update() needs to go on
WinHalfParaLens == 0..MinContext

InitWindow ==
    /\ \E hpl \in WinHalfParaLens : Fresh(hpl, UpdatePruneSize, 1)
    /\ \E doc \in WinDocs :
           /\ ~TooShort(doc, half_para_len)
           /\ Len(doc) > 0
           /\ words = doc
           /\ pc = IF 0 < LoopEnd(doc) THEN "loop" ELSE "check"
           /\ last = Call("update", "running", Len(doc), -1)
    /\ i = 0
    /\ seq_num = 0
    /\ previous_topic_bigram = NoTopic
    /\ counter = Counter_new
    /\ calls = 1
    /\ net = NoNet
    /\ script = <<>>

SpecWindow == InitWindow /\ [][NextUpdate]_vars

(***************************************************************************)
(* A Counter under any sequence of add() and remove() of present keys      *)
(***************************************************************************)
InitCounter ==
    /\ Fresh(0, 0, 1)
    /\ pc = "idle"
    /\ LocalsIdle
    /\ last = Call("new", "Ok", 0, -1)
    /\ calls = 0
    /\ net = NoNet
    /\ script = <<>>

CounterAdd(key) ==
    /\ total_count(counter) < MaxTotal
    /\ counter' = Counter_add(counter, key)
    /\ net' = [net EXCEPT ![key] = @ + 1]
    /\ last' = Call("add", "Ok", 0, -1)
    /\ UNCHANGED <<configVars, indexVars, localVars, pc, calls>>

CounterRemove(key) ==
    /\ key \in DOMAIN counter.indicies
    /\ counter' = Counter_remove(counter, key)
    /\ net' = [net EXCEPT ![key] = @ - 1]
    /\ last' = Call("remove", "Ok", 0, -1)
    /\ UNCHANGED <<configVars, indexVars, localVars, pc, calls>>

NextCounter ==
    \/ \E key \in Alphabet : CounterAdd(key)
    \/ \E key \in Alphabet : CounterRemove(key)

SpecCounter == InitCounter /\ [][NextCounter]_vars

(***************************************************************************)
(* Unigram: two tokens made from two texts in a region, then cloned        *)
(***************************************************************************)
\* Texts of every length up to MaxTextLen, two of each length that differ
\* in their last byte only
Fill(n, last_byte) == [k \in 1..n |-> IF k = n THEN last_byte ELSE 1]
Texts == {Fill(n, b) : n \in 0..MaxTextLen, b \in 1..2}

InitUnigram ==
    /\ Fresh(0, 0, 1)
    /\ pc = "idle"
    /\ \E s \in Texts, t \in Texts : words = <<s, t>>
    /\ i = 0
    /\ seq_num = 0
    /\ previous_topic_bigram = NoTopic
    /\ counter = Counter_new
    /\ last = Call("new", "Ok", 0, -1)
    /\ calls = 0
    /\ net = NoNet
    /\ script = <<>>

\* Unigram::from_slice_in(words[i], pool)
Construct ==
    /\ i < 2
    /\ LET region == Region(pools, active_pool)
           slice == words[i + 1]
       IN /\ previous_topic_bigram' =
                 [previous_topic_bigram EXCEPT ![i + 1] = from_slice_in(slice, region)]
          /\ pools' = Charge(pools, region, AllocSize(slice))
          /\ last' = Call("from_slice_in", "Ok", Len(slice), -1)
    /\ i' = i + 1
    /\ UNCHANGED <<configVars, chain, active_pool, pc, words, seq_num,
                   counter, calls, net>>

\* (t1, t2).clone_in(pool)
CloneBoth ==
    /\ i = 2
    /\ \E ret \in CloneOutcomes(previous_topic_bigram) :
           LET region == Region(pools, active_pool)
               copied == RawCopyBytes(previous_topic_bigram[1])
                             + RawCopyBytes(previous_topic_bigram[2])
           IN /\ last' = Call("clone_in", ret, copied, -1)
              /\ IF ret = "Ok"
                 THEN /\ previous_topic_bigram' =
                             Bigram_clone_in(previous_topic_bigram, region)
                      /\ pools' = Charge(pools, region,
                                         BigramCloneSize(previous_topic_bigram))
                      /\ pc' = pc
                 ELSE /\ pc' = "ub"
                      /\ UNCHANGED <<previous_topic_bigram, pools>>
    /\ i' = 3
    /\ UNCHANGED <<configVars, chain, active_pool, words, seq_num,
                   counter, calls, net>>

NextUnigram ==
    \/ Construct
    \/ CloneBoth

SpecUnigram == InitUnigram /\ [][NextUnigram]_vars

(***************************************************************************)
(* Properties                                                              *)
(***************************************************************************)
RECURSIVE SumCounts(_)
SumCounts(items) ==
    IF items = <<>> THEN 0 ELSE Head(items)[2] + SumCounts(Tail(items))

\* C7: after any sequence of add() and remove() of present keys the entry
\* sequence is sorted by count, non-increasing: for all positions a < b the
\* count at a is >= the count at b.
C7_SortedByCount ==
    \A a, b \in 1..Len(counter.items) :
        a < b => counter.items[a][2] >= counter.items[b][2]

\* C7 witness: a remove() has acted on a counter of three keys of which the
\* first has a count above the last (adds have reordered entries).
C7_Witness ==
    /\ last.op = "remove"
    /\ Len(counter.items) = 3
    /\ counter.items[1][2] >= 2
    /\ counter.items[3][2] = 1

\* C8: after any sequence of add() and remove() of present keys,
\* total_count() is the sum of the stored counts, every stored count is >= 1
\* and num_items() is the number of keys with more adds than removes.
C8_TotalAndItems ==
    /\ total_count(counter) = SumCounts(counter.items)
    /\ \A k \in 1..Len(counter.items) : counter.items[k][2] >= 1
    /\ num_items(counter) = Cardinality({key \in Alphabet : net[key] > 0})

\* C8 witness: a remove() has brought one key back to as many removes as adds
\* while two keys stay, one of them counted twice.
C8_Witness ==
    /\ last.op = "remove"
    /\ num_items(counter) = 2
    /\ total_count(counter) = 3
    /\ \E key \in Alphabet : net[key] = 0 /\ key \notin DOMAIN counter.indicies

\* The regions of everything reachable from an index: its containers and
\* the bytes of its boxed tokens
UnigramRegions(u) == IF Unigram_is_inline(u) THEN {} ELSE {u.ptr.region}
BigramRegions(b) == UnigramRegions(b[1]) \cup UnigramRegions(b[2])
VecRegions(vec) ==
    {vec.alloc}
    \cup UNION {IF vec.items[k][2].some THEN UnigramRegions(vec.items[k][2].val)
                ELSE {} : k \in 1..Len(vec.items)}
TopicMapRegions(tm) ==
    {tm.alloc}
    \cup UNION {BigramRegions(t) \cup VecRegions(tm.map[t]) : t \in DOMAIN tm.map}
AllRegions(ch) ==
    {ch.alloc}
    \cup UNION {BigramRegions(b) \cup TopicMapRegions(ch.map[b]) : b \in DOMAIN ch.map}

\* The number of prune() runs so far: every run resets one pool once
NumPrunes(ps) == ps[0].gen + ps[1].gen

\* The content of an index: bigram text -> topic text -> list of
\* (sequence number, next text or absent)
OptText(o) == IF o.some THEN <<as_str(o.val)>> ELSE <<>>
RecView(rec) == <<rec[1], OptText(rec[2])>>
VecView(vec) == [k \in 1..Len(vec.items) |-> RecView(vec.items[k])]
BigramTexts(m) == {BigramText(b) : b \in DOMAIN m}
KeyWithText(m, bt) == CHOOSE b \in DOMAIN m : BigramText(b) = bt
TopicView(tm) ==
    [tt \in BigramTexts(tm.map) |-> VecView(tm.map[KeyWithText(tm.map, tt)])]
View(ch) ==
    [bt \in BigramTexts(ch.map) |-> TopicView(ch.map[KeyWithText(ch.map, bt)])]

\* All record lists of an index
AllLists(ch) ==
    UNION {{ch.map[b].map[t].items : t \in DOMAIN ch.map[b].map} : b \in DOMAIN ch.map}

\* C1: after any sequence of successful update() and prune() calls every
\* container, key and record token reachable from the index was allocated in
\* the active region, and that region has not been reset since.
C1_InActiveRegion ==
    \A r \in AllRegions(chain) : r = Region(pools, active_pool)

\* C1 witness: the second update() has come to its end on an index that was
\* compacted once; the index holds a boxed key and a boxed record token.
C1_Witness ==
    /\ pc = "check"
    /\ calls = 2
    /\ NumPrunes(pools) = 1
    /\ num_entries(chain) >= 3
    /\ \E b \in DOMAIN chain.map :
           /\ BigramRegions(b) # {}
           /\ \E t \in DOMAIN chain.map[b].map :
                  \E k \in 1..Len(chain.map[b].map[t].items) :
                      /\ chain.map[b].map[t].items[k][2].some
                      /\ ~Unigram_is_inline(chain.map[b].map[t].items[k][2].val)

\* C2: after prune() the bigrams of the index are exactly the bigrams whose
\* topic map had at least prune_threshold topic keys before the call.
C2_KeepsDenseBigrams ==
    [][NumPrunes(pools') # NumPrunes(pools) =>
          LET dense == {b \in DOMAIN chain.map :
                           Cardinality(DOMAIN chain.map[b].map) >= prune_threshold}
          IN /\ BigramTexts(chain'.map) = {BigramText(b) : b \in dense}
             /\ Cardinality(DOMAIN chain'.map) = Cardinality(dense)]_vars

\* C2 witness: a prune() with prune_threshold >= 2 has dropped at least one
\* bigram and kept at least one.
C2_Witness ==
    /\ last.ret = "Ok"
    /\ prune_threshold >= 2
    /\ num_entries(chain) >= 1
    /\ num_entries(chain) < last.pruned

\* C3: every bigram that survives prune() keeps its topic keys and, per topic,
\* the same (sequence number, next) records in the same order.
C3_KeptContentUnchanged ==
    [][NumPrunes(pools') # NumPrunes(pools) =>
          \A bt \in BigramTexts(chain'.map) :
              /\ bt \in BigramTexts(chain.map)
              /\ View(chain')[bt] = View(chain)[bt]]_vars

\* C3 witness: after a prune() a surviving bigram holds a list of two records
\* with different sequence numbers.
C3_Witness ==
    /\ last.ret = "Ok"
    /\ last.pruned >= 1
    /\ \E l \in AllLists(chain) : Len(l) >= 2 /\ l[1][1] # l[2][1]

\* C9: update() of a document shorter than half_para_len returns Ok at once
\* and changes neither the index content nor the active-region selector nor
\* either region; no compaction runs.
C9_ShortDocumentNoMutation ==
    [][(calls' = calls + 1 /\ last'.op = "update" /\ last'.len < half_para_len) =>
          /\ pc' = "idle"
          /\ last'.ret = "Ok"
          /\ chain' = chain
          /\ pools' = pools
          /\ active_pool' = active_pool]_vars

\* C9 witness: update() of a too short, non-empty document has returned on an
\* index that holds entries.
C9_Witness ==
    /\ pc = "idle"
    /\ last = Call("update", "Ok", 2, -1)
    /\ half_para_len = 3
    /\ num_entries(chain) >= 1

\* C10: update() runs prune() exactly once after its position loop when the
\* active region's allocated bytes exceed prune_size, not at all when they do
\* not, and never before or inside the position loop.
C10_PruneOnlyAfterLoop ==
    [][/\ pc = "check" =>
              /\ pc' = "idle"
              /\ NumPrunes(pools') = NumPrunes(pools)
                     + (IF pools[active_pool].bytes > prune_size THEN 1 ELSE 0)
       /\ pc = "loop" =>
              /\ NumPrunes(pools') = NumPrunes(pools)
              /\ active_pool' = active_pool
              /\ pc' \in {"loop", "check", "panicked"}
       /\ (pc = "idle" /\ last'.op = "update") =>
              /\ NumPrunes(pools') = NumPrunes(pools)
              /\ active_pool' = active_pool]_vars

\* C10 witness: an update() has compacted once and returned although the new
\* active region is above the threshold again.
C10_Witness ==
    /\ pc = "idle"
    /\ last.op = "update"
    /\ last.ret = "Ok"
    /\ last.pruned >= 1
    /\ pools[active_pool].bytes > prune_size

\* The index content after one more record for (bigram text, topic text)
ViewPush(v, bt, tt, rec) ==
    LET tv == IF bt \in DOMAIN v THEN v[bt] ELSE <<>>
        old == IF tt \in DOMAIN tv THEN tv[tt] ELSE <<>>
    IN [x \in DOMAIN v \cup {bt} |->
           IF x = bt
           THEN [y \in DOMAIN tv \cup {tt} |->
                    IF y = tt THEN Append(old, rec) ELSE tv[y]]
           ELSE v[x]]

\* C4: a processed position i appends exactly one record (seq, next) to the
\* end of the list of (words[i], words[i+1]) under the topic made of the
\* counter's two most frequent keys, next being words[i+2] or absent; every
\* other list and every older record stays as it is, and a position that is
\* not processed changes nothing.
C4_OneRecordAppended ==
    [][pc = "loop" =>
          IF i' = i + 1
          THEN View(chain') =
                   ViewPush(View(chain),
                            <<words[i + 1], words[i + 2]>>,
                            <<most_frequent(counter', 1)[1],
                              most_frequent(counter', 2)[1]>>,
                            <<seq_num' - 1,
                              IF i + 2 < Len(words) THEN <<words[i + 3]>>
                              ELSE <<>> >>)
          ELSE chain' = chain]_vars

\* C4 witness: the loop has processed the last position of a document of six
\* tokens; one list holds two records and one record has no next token.
C4_Witness ==
    /\ pc = "check"
    /\ Len(words) = 6
    /\ i = 5
    /\ \E l \in AllLists(chain) : Len(l) >= 2
    /\ \E l \in AllLists(chain) : \E k \in 1..Len(l) : ~l[k][2].some

\* Occurrences of token t in words[lo .. hi) (0-based, end exclusive)
Occurrences(ws, lo, hi, t) == Cardinality({j \in lo..(hi - 1) : ws[j + 1] = t})

CountOf(c, t) == IF t \in DOMAIN c.indicies THEN c.items[c.indicies[t]][2] ELSE 0

\* C5: after the adjustment at every processed position i the counter holds,
\* for every token longer than 2, its number of occurrences in
\* words[max(0, i - H) .. min(i + H, len)), and total_count() is the number
\* of such tokens in that window.
C5_CounterTracksWindow ==
    [][(pc = "loop" /\ i' = i + 1) =>
          LET lo == Max(0, i - half_para_len)
              hi == Min(i + half_para_len, Len(words))
          IN /\ \A t \in Alphabet :
                    Counted(t) => CountOf(counter', t) = Occurrences(words, lo, hi, t)
             /\ total_count(counter') =
                    Cardinality({j \in lo..(hi - 1) : Counted(words[j + 1])})]_vars

\* C6 as claimed: in every list the sequence numbers are strictly increasing
\* in list order.
C6_StrictlyIncreasing ==
    \A l \in AllLists(chain) :
        \A a, b \in 1..Len(l) : a < b => l[a][1] < l[b][1]

\* The topic texts at positions 0 .. n-1 of one call (element k+1 is the
\* topic at position k), replaying the counter from the start of the call
RECURSIVE TopicsFrom(_, _, _, _, _)
TopicsFrom(c, ws, hpl, k, n) ==
    IF k >= n THEN <<>>
    ELSE LET c2 == Adjust(c, ws, k, hpl)
         IN <<(<<most_frequent(c2, 1)[1], most_frequent(c2, 2)[1]>>)>>
                \o TopicsFrom(c2, ws, hpl, k + 1, n)

TopicTexts(ws, hpl, n) == TopicsFrom(Counter_new, ws, hpl, 0, n)

\* The first position of the run of equal topics that ends at position n-1
RunStart(ts) ==
    LET n == Len(ts)
    IN CHOOSE r \in 0..(n - 1) :
           /\ \A j \in r..(n - 1) : ts[j + 1] = ts[n]
           /\ r > 0 => ts[r] # ts[n]

\* The list of (bigram text, topic text)
ListOf(ch, bt, tt) ==
    LET tm == ch.map[KeyWithText(ch.map, bt)].map
    IN VecView(tm[KeyWithText(tm, tt)])

\* C6 amended: the records appended during one run of consecutive positions
\* of equal topic of one update() stand at the end of their lists in position
\* order, and the sequence number of each is its offset in the run; within a
\* run the sequence numbers of a list are thus strictly increasing.
C6_IncreasingWithinRun ==
    (pc \in {"loop", "check"} /\ i >= 1) =>
        LET ts == TopicTexts(words, half_para_len, i)
            r == RunStart(ts)
        IN \A j \in r..(i - 1) :
               LET bt == <<words[j + 1], words[j + 2]>>
                   later == {m \in (j + 1)..(i - 1) :
                                <<words[m + 1], words[m + 2]>> = bt}
                   l == ListOf(chain, bt, ts[i])
               IN /\ bt \in BigramTexts(chain.map)
                  /\ Len(l) > Cardinality(later)
                  /\ l[Len(l) - Cardinality(later)][1] = j - r

\* C6 witness: one run has appended two records to the same list.
C6_Witness ==
    /\ pc \in {"loop", "check"}
    /\ i >= 3
    /\ \E j \in RunStart(TopicTexts(words, half_para_len, i))..(i - 2) :
           <<words[j + 1], words[j + 2]>> = <<words[i], words[i + 1]>>

\* C11: when a region allocation is refused during update() or prune(), the
\* call returns an allocation error to its caller (it neither panics nor
\* ends the process).
C11_AllocationFailureReturned ==
    pc = "alloc_failed" => last.ret = "Err"

\* C12: when prune() fails part-way, the active-region selector and the
\* index are those of before the call.
C12_FailedCompactRolledBack ==
    [][(pc # "loop" /\ pc' = "alloc_failed") =>
          /\ active_pool' = active_pool
          /\ chain' = chain
          /\ chain'.alloc = Region(pools', active_pool')]_vars

\* A step on which prune() ran to its end
PruneSucceeds ==
    /\ pc' # "alloc_failed"
    /\ \/ last'.op = "prune" /\ calls' = calls + 1
       \/ pc = "check" /\ last'.pruned # -1

\* C13: the two regions alternate.  A successful prune() makes the other
\* region the active one, leaves the index entirely in it and leaves the
\* region that was active empty; no other step of a running process moves the
\* selector; so the selector is the number of successful prunes mod 2 and
\* the inactive region holds no bytes and no part of the index.
C13_StrictAlternation ==
    [][pc' # "alloc_failed" =>
          /\ IF PruneSucceeds
             THEN /\ active_pool' = 1 - active_pool
                  /\ pools'[active_pool].bytes = 0
                  /\ NumPrunes(pools') = NumPrunes(pools) + 1
             ELSE /\ active_pool' = active_pool
                  /\ NumPrunes(pools') = NumPrunes(pools)
          /\ active_pool' = NumPrunes(pools') % 2
          /\ pools'[1 - active_pool'].bytes = 0
          /\ \A r \in AllRegions(chain') : r.pool = active_pool']_vars

\* C13 witness: two prunes have succeeded, the selector is back at region 0
\* and the index, rebuilt twice, still holds entries.
C13_Witness ==
    /\ pc = "idle"
    /\ last.ret = "Ok"
    /\ NumPrunes(pools) = 2
    /\ active_pool = 0
    /\ num_entries(chain) >= 1
    /\ pools[0].bytes > 0

\* The index as a function of the configuration and the documents alone:
\* content as texts and the bytes requested from the active region
RefEmpty == [view |-> <<>>, bytes |-> 0]

TextPairSize(p) == AllocSize(p[1]) + AllocSize(p[2])

RECURSIVE RefLoop(_, _, _, _, _, _, _)
RefLoop(st, ws, hpl, k, c, prev, seq) ==
    IF k >= LoopEnd(ws) \/ RemovePanics(c, ws, k, hpl) THEN st
    ELSE LET c2 == Adjust(c, ws, k, hpl) IN
         IF Insufficient(c2) THEN st
         ELSE LET tt == <<most_frequent(c2, 1)[1], most_frequent(c2, 2)[1]>>
                  s == IF tt # prev THEN 0 ELSE seq
                  bt == <<ws[k + 1], ws[k + 2]>>
                  next == IF k + 2 < Len(ws) THEN <<ws[k + 3]>> ELSE <<>>
                  newB == bt \notin DOMAIN st.view
                  newT == newB \/ tt \notin DOMAIN st.view[bt]
                  req == TextPairSize(tt)
                         + (IF tt # prev THEN TextPairSize(tt) ELSE 0)
                         + (IF next # <<>> THEN AllocSize(next[1]) ELSE 0)
                         + TextPairSize(bt)
                         + (IF newB THEN EntryBytes ELSE 0)
                         + (IF newT THEN TopicEntryBytes ELSE 0)
                         + RecordBytes
              IN RefLoop([view |-> ViewPush(st.view, bt, tt, <<s, next>>),
                          bytes |-> st.bytes + req],
                         ws, hpl, k + 1, c2, tt, s + 1)

RefListSize(l) ==
    Len(l) * RecordBytes
    + SumOver(1..Len(l), [k \in 1..Len(l) |->
                             IF l[k][2] # <<>> THEN AllocSize(l[k][2][1]) ELSE 0])

RefPrune(st, pthreshold) ==
    LET v == st.view
        kept == {bt \in DOMAIN v : Cardinality(DOMAIN v[bt]) >= pthreshold}
    IN [view |-> [bt \in kept |-> v[bt]],
        bytes |->
            ((Cardinality(DOMAIN v) * 14) \div 10) * EntryBytes
            + SumOver(kept,
                      [bt \in kept |->
                          TextPairSize(bt)
                          + Cardinality(DOMAIN v[bt]) * TopicEntryBytes
                          + SumOver(DOMAIN v[bt],
                                    [tt \in DOMAIN v[bt] |->
                                        TextPairSize(tt) + RefListSize(v[bt][tt])])])]

RefUpdate(st, doc, hpl, psize, pthreshold) ==
    IF TooShort(doc, hpl) THEN st
    ELSE LET l == RefLoop(st, doc, hpl, 0, Counter_new, <<EmptyText, EmptyText>>, 0)
         IN IF l.bytes > psize THEN RefPrune(l, pthreshold) ELSE l

RECURSIVE RefRun(_, _, _, _, _)
RefRun(docs, n, hpl, psize, pthreshold) ==
    IF n = 0 THEN RefEmpty
    ELSE RefUpdate(RefRun(docs, n - 1, hpl, psize, pthreshold),
                   docs[n], hpl, psize, pthreshold)

Made == 1..Min(i, 2)

\* C15: round trip.  For every text s of at most 15 bytes (inline) and every
\* text s of 16 to 100 bytes (boxed), the token made from s reads back as s.
C15_RoundTrip ==
    \A k \in Made :
        Len(words[k]) <= 100 => as_str(previous_topic_bigram[k]) = words[k]

\* C15 witness: a token of 15 bytes and a token of 100 bytes have been made.
C15_Witness ==
    /\ last.op = "from_slice_in"
    /\ i = 2
    /\ Len(words[1]) = 15
    /\ Len(words[2]) = 100
    /\ Unigram_is_inline(previous_topic_bigram[1])
    /\ ~Unigram_is_inline(previous_topic_bigram[2])

\* C16: the tokens made from two texts s and t of any length are equal if
\* and only if s and t are the same byte string.
C16_EqualityOverContent ==
    i >= 2 =>
        (Unigram_eq(previous_topic_bigram[1], previous_topic_bigram[2])
             <=> words[1] = words[2])

\* C17: for a text s of any length, the token made from s has len() equal to
\* the number of bytes of s.
C17_LenIsByteLength ==
    \A k \in Made : Unigram_len(previous_topic_bigram[k]) = Len(words[k])

\* C18: from_slice_in makes an inline token if and only if the text has at
\* most 15 bytes; making an inline token requests nothing from the region,
\* making a token of more than 15 bytes requests bytes from it.
C18_InlineIffShort ==
    [][last'.op = "from_slice_in" =>
          LET slice == words[i + 1]
              u == previous_topic_bigram'[i + 1]
          IN /\ Unigram_is_inline(u) <=> Len(slice) <= 15
             /\ Len(slice) <= 15 => pools' = pools
             /\ Len(slice) > 15 =>
                    allocated_bytes(pools', active_pool)
                        > allocated_bytes(pools, active_pool)]_vars

\* C18 witness: a token of 15 bytes was made without a request, then a token
\* of 16 bytes with one.
C18_Witness ==
    /\ last.op = "from_slice_in"
    /\ i = 2
    /\ Len(words[1]) = 15
    /\ Len(words[2]) = 16
    /\ Unigram_is_inline(previous_topic_bigram[1])
    /\ ~Unigram_is_inline(previous_topic_bigram[2])
    /\ allocated_bytes(pools, active_pool) = 16

\* C19: within one update() the sequence number recorded at a processed
\* position i is the number of processed positions immediately before i
\* whose topic pair is the topic pair at i (as an ordered pair): 0 at the
\* first position and wherever the topic differs from the previous one, a
\* swap of its components included; it depends on the current document only.
C19_SeqIsOffsetInRun ==
    [][(pc = "loop" /\ i' = i + 1) =>
          LET ts == TopicTexts(words, half_para_len, i + 1)
              l == ListOf(chain', <<words[i + 1], words[i + 2]>>, ts[i + 1])
          IN /\ l[Len(l)][1] = i - RunStart(ts)
             /\ (i = 0 \/ ts[i + 1] # ts[i]) => l[Len(l)][1] = 0
             /\ (i > 0 /\ ts[i + 1] = ts[i]) => l[Len(l)][1] = seq_num]_vars

\* C19 witness: the loop has gone through a position that kept the topic of
\* the one before and, later, a position whose topic is the previous one
\* with its components swapped.
C19_Witness ==
    /\ pc \in {"loop", "check"}
    /\ i >= 3
    /\ LET ts == TopicTexts(words, half_para_len, i)
       IN \E a, b \in 2..i :
              /\ a < b
              /\ ts[a] = ts[a - 1]
              /\ ts[b] = <<ts[b - 1][2], ts[b - 1][1]>>

Added(key) == net'[key] = net[key] + 1
Removed(key) == net'[key] = net[key] - 1

\* All entries but those at positions a and b are where they were
OthersKept(a, b) ==
    /\ Len(counter'.items) = Len(counter.items)
    /\ \A k \in 1..Len(counter.items) :
           k \notin {a, b} => counter'.items[k] = counter.items[k]

\* C21: add(key) on a key present at position p, new count c: with q the
\* smallest position <= p such that all entries at q..p-1 have a count < c,
\* the key is afterwards at q with count c, the entry that was at q is at p,
\* every other entry is where it was, entries left of q have a count >= c
\* and entries right of q a count < c.
C21_AddSwapsToRunStart ==
    [][\A key \in Alphabet :
          (Added(key) /\ key \in DOMAIN counter.indicies) =>
              LET p == counter.indicies[key]
                  c == counter.items[p][2] + 1
                  q == CHOOSE x \in 1..p :
                           /\ \A k \in x..(p - 1) : counter.items[k][2] < c
                           /\ x > 1 => counter.items[x - 1][2] >= c
              IN /\ counter'.items[q] = <<key, c>>
                 /\ q # p => counter'.items[p] = counter.items[q]
                 /\ OthersKept(p, q)
                 /\ \A k \in 1..(q - 1) : counter'.items[k][2] >= c
                 /\ \A k \in (q + 1)..Len(counter'.items) :
                        counter'.items[k][2] < c]_vars

\* C21 witness: an add() has brought a key to count 2 at the front of three
\* entries, the other two having count 1.
C21_Witness ==
    /\ last.op = "add"
    /\ Len(counter.items) = 3
    /\ counter.items[1][2] = 2
    /\ counter.items[2][2] = 1
    /\ counter.items[3][2] = 1
    /\ \E key \in Alphabet : net[key] = 2 /\ counter.indicies[key] = 1

\* C22: remove(key) on a key at position p whose count stays positive, new
\* count c: with r the largest position >= p such that all entries at
\* p+1..r have a count > c, the key is afterwards at r with count c, the
\* entry that was at r is at p, every other entry is where it was, entries
\* left of r have a count > c and entries right of r a count <= c.
C22_RemoveSwapsToRunEnd ==
    [][\A key \in Alphabet :
          (Removed(key) /\ counter.items[counter.indicies[key]][2] > 1) =>
              LET p == counter.indicies[key]
                  c == counter.items[p][2] - 1
                  n == Len(counter.items)
                  r == CHOOSE x \in p..n :
                           /\ \A k \in (p + 1)..x : counter.items[k][2] > c
                           /\ x < n => counter.items[x + 1][2] <= c
              IN /\ counter'.items[r] = <<key, c>>
                 /\ r # p => counter'.items[p] = counter.items[r]
                 /\ OthersKept(p, r)
                 /\ \A k \in 1..(r - 1) : counter'.items[k][2] > c
                 /\ \A k \in (r + 1)..n : counter'.items[k][2] <= c]_vars

\* C22 witness: a remove() has left a key with count 1 at the end of three
\* entries, behind two entries of count 2.
C22_Witness ==
    /\ last.op = "remove"
    /\ Len(counter.items) = 3
    /\ counter.items[1][2] = 2
    /\ counter.items[2][2] = 2
    /\ counter.items[3][2] = 1
    /\ \E key \in Alphabet :
           /\ key \in DOMAIN counter.indicies
           /\ counter.indicies[key] = 3
           /\ net[key] = 1

\* C23: remove(key) that brings the count of key to 0 deletes it: the key is
\* in neither the sequence nor the lookup, num_items() is one less, the
\* entry that was at the tail is at the position the key had (unless the key
\* was the tail), every other entry is where it was; an add(key) on an
\* absent key appends (key, 1) at the tail.
C23_RemoveToZeroDeletes ==
    [][\A key \in Alphabet :
          /\ (Removed(key) /\ counter.items[counter.indicies[key]][2] = 1) =>
                 LET p == counter.indicies[key]
                     n == Len(counter.items)
                 IN /\ key \notin DOMAIN counter'.indicies
                    /\ \A k \in 1..Len(counter'.items) : counter'.items[k][1] # key
                    /\ num_items(counter') = n - 1
                    /\ p < n => counter'.items[p] = counter.items[n]
                    /\ \A k \in 1..(n - 1) :
                           k # p => counter'.items[k] = counter.items[k]
          /\ (Added(key) /\ key \notin DOMAIN counter.indicies) =>
                 counter'.items = Append(counter.items, <<key, 1>>)]_vars

\* C23 witness: a remove() has left three keys of count 1, TokB (the key
\* added last of four) in the first position, and TokS absent.
C23_Witness ==
    /\ last.op = "remove"
    /\ Len(counter.items) = 3
    /\ total_count(counter) = 3
    /\ TokS \notin DOMAIN counter.indicies
    /\ counter.items[1][1] = TokB
    /\ counter.items[2][1] = TokA
    /\ counter.items[3][1] = TokC

\* C25: the lookup and the sequence of a counter agree: the lookup has one
\* entry for each key of the sequence and no other, no key is twice in the
\* sequence, and the lookup of the key at position k is k.
C25_LookupAgrees ==
    /\ DOMAIN counter.indicies = {counter.items[k][1] : k \in 1..Len(counter.items)}
    /\ \A j, k \in 1..Len(counter.items) :
           counter.items[j][1] = counter.items[k][1] => j = k
    /\ \A k \in 1..Len(counter.items) : counter.indicies[counter.items[k][1]] = k

\* C25 witness: after a remove(), three keys with counts 2, 2 and 1, the
\* first being TokC.
C25_Witness ==
    /\ last.op = "remove"
    /\ Len(counter.items) = 3
    /\ counter.items[1] = <<TokC, 2>>
    /\ counter.items[2][2] = 2
    /\ counter.items[3][2] = 1
    /\ counter.indicies[TokC] = 1

\* C24: clone_in of an inline token copies exactly the 16 bytes of one token
\* representation, requests nothing from the region and returns a token
\* equal to the source; clone_in of a boxed token requests the bytes of its
\* text from the target region and returns a token with the same text whose
\* bytes are in the target region.
C24_CloneInFootprint ==
    [][last'.op = "clone_in" =>
          \A k \in 1..2 :
              LET u == previous_topic_bigram[k]
                  v == previous_topic_bigram'[k]
                  region == Region(pools, active_pool)
              IN IF Unigram_is_inline(u)
                 THEN /\ RawCopyBytes(u) = 16
                      /\ last'.ret = "Ok"
                      /\ v.ptr = NoPtr
                      /\ Unigram_eq(v, u)
                      /\ Unigram_is_inline(previous_topic_bigram[3 - k])
                             => pools' = pools
                 ELSE /\ last'.ret = "Ok"
                      /\ v.ptr.region = region
                      /\ as_str(v) = as_str(u)
                      /\ allocated_bytes(pools', active_pool)
                             >= allocated_bytes(pools, active_pool) + Unigram_len(u)]_vars

\* The part of C24 that does not depend on the extent of the copy: a
\* clone_in that returns gives tokens equal in text to the sources, boxed
\* ones in the target region, and requests region bytes for boxed tokens
\* only.
CloneInValue ==
    [][(last'.op = "clone_in" /\ last'.ret = "Ok") =>
          /\ \A k \in 1..2 :
                 LET u == previous_topic_bigram[k]
                     v == previous_topic_bigram'[k]
                 IN /\ as_str(v) = as_str(u)
                    /\ Unigram_is_inline(v) <=> Unigram_is_inline(u)
                    /\ ~Unigram_is_inline(u) =>
                           v.ptr.region = Region(pools, active_pool)
          /\ pools' = Charge(pools, Region(pools, active_pool),
                             BigramCloneSize(previous_topic_bigram))]_vars

\* C26: with half_para_len >= 1, the word update() is about to remove at a
\* position is in the counter with a count >= 1 (and the total is >= 1), so
\* remove() finds its key and update() never panics there; the total is
\* never negative; when update() reads most_frequent(1) and
\* most_frequent(2) the counter has at least two entries.
C26_RemoveTargetsPresent ==
    half_para_len >= 1 =>
        /\ pc # "panicked"
        /\ total_count(counter) >= 0
        /\ pc = "loop" =>
               /\ i > 0 =>
                      \A w \in Leaving(words, i, half_para_len) :
                          /\ w \in DOMAIN counter.indicies
                          /\ counter.items[counter.indicies[w]][2] >= 1
                          /\ total_count(counter) >= 1
               /\ ~RemovePanics(counter, words, i, half_para_len) =>
                      LET c == Adjust(counter, words, i, half_para_len)
                      IN ~Insufficient(c) => Len(c.items) >= 2

\* C26 witness: with half_para_len = 3 every position of a document of 8
\* words was processed; at position 6 update() removed words[3], a counted
\* word that was added at position 1.
C26_Witness ==
    /\ half_para_len = 3
    /\ Len(words) = 8
    /\ pc = "check"
    /\ i = 7
    /\ Counted(words[4])
    /\ num_entries(chain) >= 2

\* C27: with half_para_len <= 2 update() records nothing: the window at
\* position 0 holds at most half_para_len words, the total of the counter is
\* below 3 there, the loop is left at position 0 and the index is as it was.
C27_SmallWindowRecordsNothing ==
    half_para_len <= 2 =>
        /\ i = 0
        /\ chain = Chain_new(half_para_len, prune_size, prune_threshold).chain
        /\ num_entries(chain) = 0
        /\ pools = Chain_new(half_para_len, prune_size, prune_threshold).pools
        /\ pc \in {"check", "idle"} => total_count(counter) <= half_para_len
        /\ total_count(counter) < 3

\* With half_para_len <= 2 the index is empty after any number of update()
\* and prune() calls (Spec).
SmallWindowIndexEmpty ==
    half_para_len <= 2 => (i = 0 /\ num_entries(chain) = 0)

\* C27 witness: with half_para_len = 2 the loop was left at position 0 of a
\* document of 8 words with two different counted words in the counter.
C27_Witness ==
    /\ half_para_len = 2
    /\ Len(words) = 8
    /\ pc = "check"
    /\ i = 0
    /\ total_count(counter) = 2
    /\ num_items(counter) = 2
    /\ num_entries(chain) = 0

====
